---- MODULE Spec2Model ----
(***************************************************************************)
(* A model of cldv2/js/main.js: the page's theme toggle, mobile            *)
(* navigation, <details> dropdowns, search dialog and skip link.  Every    *)
(* handler of the script is one action; the browser delivers the events    *)
(* (clicks, key presses, toggle and animationend events, timer expiries)   *)
(* one at a time, each handler running to completion.                      *)
(***************************************************************************)
EXTENDS Integers, Sequences, FiniteSets, TLC

VARIABLES
  pc,             \* "start" before the script runs, "done" after, "failed" if it threw
  present,        \* the elements the document holds (querySelector finds them)
  wired,          \* the listeners the script has registered
  storageThrows,  \* whether any access to localStorage throws
  themeAttr,      \* document.documentElement.dataset.theme
  stored,         \* localStorage['theme']
  osDark,         \* matchMedia('(prefers-color-scheme: dark)').matches
  themeLabel,     \* aria-label of the theme toggle
  clicks,         \* history: one record per theme-toggle activation
  nav,            \* aria-hidden of .site-nav, aria-expanded and aria-label of the
                  \* hamburger, document.body.style.overflow
  navTouched,     \* history: a nav handler has written the nav attributes
  open,           \* the <details> elements that carry the open attribute
  togglePending,  \* the <details> elements with a queued toggle event, oldest first
  focus,          \* document.activeElement
  dlgOpen,        \* searchDialog.open
  closing,        \* 'closing' in searchDialog.dataset
  listeners,      \* close requests whose once-only animationend listener is registered
  timers,         \* pending setTimeout callbacks, in the order they were set
  returnFocus,    \* the element showModal() remembers to give focus back to
  reqSinceOpen,   \* history: a close request was made since the dialog last opened
  inputValue,     \* searchInput.value
  skip,           \* tabindex of <main>, location.hash, window.scrollY, and the layout:
                  \* the document offset of <main> and the height of .site-header
  lastEvent,      \* history: the event handled last
  pre             \* history: the state the last event was handled in

themeVars  == <<themeAttr, stored, osDark, themeLabel, clicks>>
navVars    == <<nav, navTouched>>
detVars    == <<open, togglePending>>
dlgVars    == <<dlgOpen, closing, listeners, timers, returnFocus, reqSinceOpen, inputValue>>
\* what only the load and the skip link write
loadVars   == <<pc, present, wired, storageThrows, skip>>
vars == <<pc, present, wired, storageThrows, themeAttr, stored, osDark, themeLabel,
          clicks, nav, navTouched, open, togglePending, focus, dlgOpen, closing,
          listeners, timers, returnFocus, reqSinceOpen, inputValue, skip, lastEvent,
          pre>>

\* ------------------------------------------------------------------ bounds
MaxClicks  == 3   \* theme-toggle activations followed in one behaviour
NDetails   == 4   \* <details> elements of the document
MaxReq     == 2   \* close requests whose listener or timer is still pending
MaxTimers  == 3   \* pending timers
MaxCoord   == 1   \* pointer coordinates and rectangle edges range over 0..MaxCoord
MaxHintLen == 3   \* characters of a hint's textContent
MaxScroll  == 2   \* scroll offsets and element heights range over 0..MaxScroll

\* ------------------------------------------------------------------ values
UNSET == "<unset>"     \* an absent attribute, an undefined dataset entry, a null item

Themes       == {"light", "dark"}
AttrValues   == {UNSET, "", "light", "dark", "auto"}
StoredValues == {UNSET, "", "light", "dark", "auto"}

\* JavaScript truthiness of a string-or-undefined value
Truthy(v) == v # UNSET /\ v # ""

Elements == {"themeToggle", "hamburger", "siteNav", "searchDialog", "searchTrigger",
             "searchClose", "searchInput", "skipLink", "main"}

El(name)   == [el |-> name, d |-> 0]
Summary(d) == [el |-> "summary", d |-> d]

Snapshot == [navOpen |-> nav.ariaHidden = "false", open |-> open,
             dlgOpen |-> dlgOpen, closing |-> closing, focus |-> focus,
             listeners |-> listeners, timers |-> timers, nav |-> nav, arg |-> 0,
             text |-> <<>>, skip |-> skip]

\* ------------------------------------------------------------------ load
\* as if searchClose.addEventListener were called without the optional chaining
WiringNeedsCloseButton(p) ==
  (IF "themeToggle" \in p THEN {"themeToggle.click"} ELSE {})
  \cup (IF "hamburger" \in p /\ "siteNav" \in p
        THEN {"hamburger.click", "siteNav.click", "document.keydown.nav", "navLinks.click"}
        ELSE {})
  \cup {"document.click", "document.keydown.details", "details.toggle"}
  \cup (IF "searchDialog" \in p /\ "searchTrigger" \in p
        THEN {"searchTrigger.click"}
             \cup (IF "searchClose" \in p
                   THEN {"searchClose.click", "searchDialog.click", "searchDialog.cancel",
                         "hint.click"}
                        \cup (IF "skipLink" \in p /\ "main" \in p
                              THEN {"skipLink.click"} ELSE {})
                   ELSE {})
        ELSE (IF "skipLink" \in p /\ "main" \in p THEN {"skipLink.click"} ELSE {}))

\* The listeners the IIFE registers, given the elements the document holds.
Wiring(p) ==
  (IF "themeToggle" \in p THEN {"themeToggle.click"} ELSE {})
  \cup (IF "hamburger" \in p /\ "siteNav" \in p
        THEN {"hamburger.click", "siteNav.click", "document.keydown.nav", "navLinks.click"}
        ELSE {})
  \cup {"document.click", "document.keydown.details", "details.toggle"}
  \cup (IF "searchDialog" \in p /\ "searchTrigger" \in p
        THEN {"searchTrigger.click", "searchDialog.click", "searchDialog.cancel",
              "hint.click"}
             \cup (IF "searchClose" \in p THEN {"searchClose.click"} ELSE {})
        ELSE {})
  \cup (IF "skipLink" \in p /\ "main" \in p THEN {"skipLink.click"} ELSE {})

RestoreThemeNever(attr, savedTheme) == attr

\* const savedTheme = localStorage.getItem('theme'); if (savedTheme) dataset.theme = savedTheme
RestoreTheme(attr, savedTheme) == IF Truthy(savedTheme) THEN savedTheme ELSE attr

Load ==
  /\ pc = "start"
  /\ IF storageThrows
       THEN /\ pc' = "failed"
            /\ UNCHANGED <<wired, themeAttr>>
       ELSE /\ pc' = "done"
            /\ themeAttr' = RestoreTheme(themeAttr, stored)
            /\ wired' = Wiring(present)
  /\ lastEvent' = "load"
  /\ pre' = Snapshot
  /\ UNCHANGED <<present, storageThrows, stored, osDark, themeLabel, clicks, focus>>
  /\ UNCHANGED <<navVars, detVars, dlgVars, skip>>

\* ------------------------------------------------------------------ theme
IsDarkAttrOnly(attr, os) == attr = "dark"

\* const isDark = root.dataset.theme === 'dark' || (!root.dataset.theme && matchMedia(...).matches)
IsDark(attr, os) == attr = "dark" \/ (~Truthy(attr) /\ os)

NewThemeStuck(attr, os) == "dark"

\* const newTheme = isDark ? 'light' : 'dark'
NewTheme(attr, os) == IF IsDark(attr, os) THEN "light" ELSE "dark"

ThemeLabelFor(newTheme) ==
  IF newTheme = "dark" THEN "Prepnout na svetly motiv" ELSE "Prepnout na tmavy motiv"

ThemeToggleClick ==
  /\ pc = "done"
  /\ "themeToggle.click" \in wired
  /\ Len(clicks) < MaxClicks
  /\ LET newTheme == NewTheme(themeAttr, osDark) IN
       /\ themeAttr' = newTheme
       /\ stored' = newTheme
       /\ themeLabel' = ThemeLabelFor(newTheme)
       /\ clicks' = Append(clicks, [attrBefore |-> themeAttr, storedBefore |-> stored,
                                    os |-> osDark, attrAfter |-> themeAttr',
                                    storedAfter |-> stored'])
  /\ lastEvent' = "themeToggle.click"
  /\ pre' = Snapshot
  /\ UNCHANGED <<loadVars, osDark, focus>>
  /\ UNCHANGED <<navVars, detVars, dlgVars>>

\* The user changes the operating system's colour scheme while the page is shown.
OsPreferenceChange ==
  /\ pc # "start"
  /\ osDark' = ~osDark
  /\ lastEvent' = "prefers-color-scheme"
  /\ pre' = Snapshot
  /\ UNCHANGED <<loadVars, themeAttr, stored, themeLabel, clicks, focus>>
  /\ UNCHANGED <<navVars, detVars, dlgVars>>

\* ------------------------------------------------------------------ mobile navigation
AttrInit == {UNSET, "true", "false"}

HamburgerToggleKeepsScroll(n) ==
  LET isOpen   == n.ariaHidden = "false"
      newState == ~isOpen
  IN  [ariaHidden   |-> IF ~newState THEN "true" ELSE "false",
       ariaExpanded |-> IF newState THEN "true" ELSE "false",
       label        |-> IF newState THEN "Zavrit navigaci" ELSE "Otevrit navigaci",
       overflow     |-> n.overflow]

\* the hamburger's click listener
HamburgerToggle(n) ==
  LET isOpen   == n.ariaHidden = "false"
      newState == ~isOpen
  IN  [ariaHidden   |-> IF ~newState THEN "true" ELSE "false",
       ariaExpanded |-> IF newState THEN "true" ELSE "false",
       label        |-> IF newState THEN "Zavrit navigaci" ELSE "Otevrit navigaci",
       overflow     |-> IF newState THEN "hidden" ELSE ""]

closeNavKeepsScroll(n) ==
  [ariaHidden |-> "true", ariaExpanded |-> "false", label |-> "Otevrit navigaci",
   overflow |-> n.overflow]

closeNavKeepsLabel(n) ==
  [ariaHidden |-> "true", ariaExpanded |-> "false", label |-> n.label, overflow |-> ""]

\* function closeNav()
closeNav(n) ==
  [ariaHidden |-> "true", ariaExpanded |-> "false", label |-> "Otevrit navigaci",
   overflow |-> ""]

\* ------------------------------------------------------------------ <details> dropdowns
Details == 1..NDetails

\* The document's <details> in tree order: 1 and 3 are siblings under .site-nav,
\* 2 is nested in the content of 1, 4 and any further one stand outside .site-nav.
Parent(d) == IF d = 2 THEN 1 ELSE 0
InNav(d)  == d <= 3

\* 3 has no <summary> child of its own (the browser supplies the default one).
HasSummary(d) == d # 3

NavDetails == IF "siteNav" \in present THEN {d \in Details : InNav(d)} ELSE {}

RECURSIVE Ancestors(_)
Ancestors(d) == IF d = 0 \/ Parent(d) = 0 THEN {} ELSE {Parent(d)} \cup Ancestors(Parent(d))

\* details.contains(e.target), the target lying in <details> t (0: in none)
Contains(d, t) == t # 0 /\ (d = t \/ d \in Ancestors(t))

\* an element in the content of <details> t is rendered when t and its ancestors are open
ContentRendered(t, op) == t = 0 \/ ({t} \cup Ancestors(t)) \subseteq op

\* the summary of d is rendered when every <details> around d is open
SummaryRendered(d, op) == Ancestors(d) \subseteq op

DocClickCloseAll(op, t) == {}

\* document click listener: every open <details> that does not contain the target closes
DocClickClose(op, t) == {d \in op : Contains(d, t)}

\* document keydown listener: in tree order, remove open and focus the summary;
\* focus() moves the focus only to an element that is being rendered.
RECURSIVE EscapeLoop(_, _, _)
EscapeLoop(d, op, f) ==
  IF d > NDetails THEN [open |-> op, focus |-> f]
  ELSE IF d \notin op THEN EscapeLoop(d + 1, op, f)
  ELSE LET op2 == op \ {d}
           f2  == IF HasSummary(d) /\ SummaryRendered(d, op2) THEN Summary(d) ELSE f
       IN  EscapeLoop(d + 1, op2, f2)

ToggleKeepsOthers(d, op) == op

\* toggle listener of a .site-nav <details>: when it is open, the others close
ToggleListener(d, op) ==
  IF d \in op THEN op \ (NavDetails \ {d}) ELSE op

\* Queue a toggle event for d; an event already queued for d is replaced by the new one.
QueueToggle(q, d) == Append(SelectSeq(q, LAMBDA x : x # d), d)

\* Queue toggle events for the <details> of set s, in tree order.
RECURSIVE QueueToggles(_, _, _)
QueueToggles(q, s, d) ==
  IF d > NDetails THEN q
  ELSE QueueToggles(IF d \in s THEN QueueToggle(q, d) ELSE q, s, d + 1)

NavWired == "hamburger.click" \in wired

\* What the document click listener leaves open, the target lying in <details> t.
AfterDocClick(t) == IF "document.click" \in wired THEN DocClickClose(open, t) ELSE open

\* A click that no default action follows: the listeners on the target's path have run.
ClickEffects(t, newNav, touched, newFocus, name) ==
  /\ nav' = newNav
  /\ navTouched' = (navTouched \/ touched)
  /\ open' = AfterDocClick(t)
  /\ togglePending' = QueueToggles(togglePending, open \ AfterDocClick(t), 1)
  /\ focus' = newFocus
  /\ lastEvent' = name
  /\ pre' = [Snapshot EXCEPT !.arg = t]
  /\ UNCHANGED <<loadVars, themeVars, dlgVars>>

HamburgerClick ==
  /\ pc # "start"
  /\ "hamburger" \in present
  /\ ClickEffects(0, IF NavWired THEN HamburgerToggle(nav) ELSE nav, NavWired,
                  El("hamburger"), "hamburger.click")

\* a click whose target is the .site-nav container itself (its ::before overlay)
NavBackgroundClick ==
  /\ pc # "start"
  /\ "siteNav" \in present
  /\ ClickEffects(0, IF NavWired THEN closeNav(nav) ELSE nav, NavWired,
                  El("body"), "siteNav.click")

\* a click on a link of .site-nav, the link lying in <details> t (0: in none)
NavLinkClick(t) ==
  /\ pc # "start"
  /\ "siteNav" \in present
  /\ t \in NavDetails \cup {0}
  /\ ContentRendered(t, open)
  /\ ClickEffects(t, IF NavWired THEN closeNav(nav) ELSE nav, NavWired,
                  El("navLink"), "navLink.click")

\* a click on content that is neither a link nor a summary, in <details> t or in none
ContentClick(t) ==
  /\ pc # "start"
  /\ t \in Details \cup {0}
  /\ ContentRendered(t, open)
  /\ ClickEffects(t, nav, FALSE, El("body"), "content.click")

\* a click on the summary of d: the listeners run, then the browser toggles d
SummaryClick(d) ==
  /\ pc # "start"
  /\ d \in Details
  /\ SummaryRendered(d, open)
  /\ LET kept == AfterDocClick(d) IN
       /\ open' = IF d \in kept THEN kept \ {d} ELSE kept \cup {d}
       /\ togglePending' = QueueToggle(QueueToggles(togglePending, open \ kept, 1), d)
  /\ focus' = Summary(d)
  /\ lastEvent' = "summary.click"
  /\ pre' = [Snapshot EXCEPT !.arg = d]
  /\ UNCHANGED <<loadVars, themeVars, navVars, dlgVars>>

\* a keydown of Escape: the nav listener runs first, then the <details> listener
EscapeKey ==
  /\ pc # "start"
  /\ LET navEsc == "document.keydown.nav" \in wired /\ nav.ariaHidden = "false"
         f1     == IF navEsc THEN El("hamburger") ELSE focus
         res    == IF "document.keydown.details" \in wired
                   THEN EscapeLoop(1, open, f1)
                   ELSE [open |-> open, focus |-> f1]
     IN  /\ nav' = IF navEsc THEN closeNav(nav) ELSE nav
         /\ navTouched' = (navTouched \/ navEsc)
         /\ open' = res.open
         /\ togglePending' = QueueToggles(togglePending, open \ res.open, 1)
         /\ focus' = res.focus
  /\ lastEvent' = "keydown.Escape"
  /\ pre' = Snapshot
  /\ UNCHANGED <<loadVars, themeVars, dlgVars>>

\* the oldest queued toggle event is dispatched
ToggleEvent ==
  /\ pc # "start"
  /\ togglePending # <<>>
  /\ LET d     == Head(togglePending)
         after == IF "details.toggle" \in wired /\ d \in NavDetails
                  THEN ToggleListener(d, open) ELSE open
     IN  /\ open' = after
         /\ togglePending' = QueueToggles(Tail(togglePending), open \ after, 1)
         /\ pre' = [Snapshot EXCEPT !.arg = d]
  /\ lastEvent' = "toggle"
  /\ UNCHANGED <<loadVars, themeVars, navVars, dlgVars, focus>>

\* ------------------------------------------------------------------ search dialog
FocusDelay == 50     \* setTimeout(() => searchInput?.focus(), 50)
CloseDelay == 300    \* the fallback timeout of closeSearch

Coord == 0..MaxCoord
Rects == {r \in [left : Coord, right : Coord, top : Coord, bottom : Coord] :
            r.left <= r.right /\ r.top <= r.bottom}

clickedBackdrop(x, y, rect) ==
  x < rect.left \/ x > rect.right \/ y < rect.top \/ y > rect.bottom

\* what the dialog's click listener can compute for a click at (x, y), over the
\* positions the click and the dialog's box can have
BackdropVerdicts(xs, ys) ==
  {clickedBackdrop(x, y, rect) : x \in xs, y \in ys, rect \in Rects}

DialogState == [listeners |-> listeners, timers |-> timers, closing |-> closing]

TimerIds(ts) == {ts[i].id : i \in DOMAIN ts}

\* close requests that left neither a listener nor a timer behind
FreeIds(st) == {r \in 1..MaxReq : r \notin st.listeners /\ r \notin TimerIds(st.timers)}

MinOf(S) == CHOOSE m \in S : \A n \in S : m <= n

\* closeSearch(): set data-closing, add a once-only animationend listener, set the timer
closeSearch(st) ==
  LET r == MinOf(FreeIds(st)) IN
  [listeners |-> st.listeners \cup {r},
   timers    |-> Append(st.timers, [kind |-> "close", id |-> r, delay |-> CloseDelay]),
   closing   |-> TRUE]

RECURSIVE Times(_, _)
Times(n, st) == IF n = 0 THEN st ELSE closeSearch(Times(n - 1, st))

CanRequest(n) ==
  /\ Cardinality(FreeIds(DialogState)) >= n
  /\ Len(timers) + n <= MaxTimers

\* n calls of closeSearch() made by the handlers of one event
CloseCalls(n) ==
  /\ CanRequest(n)
  /\ listeners' = Times(n, DialogState).listeners
  /\ timers' = Times(n, DialogState).timers
  /\ closing' = Times(n, DialogState).closing
  /\ reqSinceOpen' = (reqSinceOpen \/ n > 0)
  /\ UNCHANGED <<dlgOpen, returnFocus>>
  /\ UNCHANGED <<loadVars, themeVars, navVars, detVars>>

Requests(n, name) ==
  /\ CloseCalls(n)
  /\ lastEvent' = name
  /\ pre' = [Snapshot EXCEPT !.arg = n]
  /\ UNCHANGED inputValue

InDialog(f) == f.el \in {"searchDialog", "searchClose", "searchInput", "hint"}

\* dialog.close() gives the focus back to the element that had it before showModal()
FocusAfterClose(wasOpen) == IF wasOpen /\ InDialog(focus) THEN returnFocus ELSE focus

\* the trigger's click listener: showModal(), then the delayed searchInput?.focus().
\* showModal() on a dialog that is already open as a modal returns at once or throws
\* InvalidStateError, depending on the engine; only the first lets the timer be set.
TriggerClick ==
  /\ "searchTrigger.click" \in wired
  /\ \E throws \in BOOLEAN :
       /\ throws => dlgOpen
       /\ ~throws => Len(timers) < MaxTimers
       /\ timers' = IF throws THEN timers
                    ELSE Append(timers, [kind |-> "focus", id |-> 0, delay |-> FocusDelay])
  /\ dlgOpen' = TRUE
  /\ returnFocus' = IF dlgOpen THEN returnFocus ELSE El("searchTrigger")
  /\ focus' = IF dlgOpen THEN focus ELSE El("searchDialog")
  /\ reqSinceOpen' = IF dlgOpen THEN reqSinceOpen ELSE FALSE
  /\ lastEvent' = "searchTrigger.click"
  /\ pre' = Snapshot
  /\ UNCHANGED <<closing, listeners, inputValue>>
  /\ UNCHANGED <<loadVars, themeVars, navVars, detVars>>

\* a click on the close button: its listener runs, then the dialog's click listener
CloseButtonClick ==
  /\ dlgOpen
  /\ "searchClose" \in present
  /\ \E outside \in BackdropVerdicts(Coord, Coord) :
       Requests((IF "searchClose.click" \in wired THEN 1 ELSE 0)
                + (IF "searchDialog.click" \in wired /\ outside THEN 1 ELSE 0),
                "searchClose.click")
  /\ focus' = El("searchClose")

\* a click on the dialog itself: on its box, or outside the box on the ::backdrop
DialogClick ==
  /\ dlgOpen
  /\ "searchDialog.click" \in wired
  /\ \E outside \in BackdropVerdicts(Coord, Coord) :
       Requests(IF outside THEN 1 ELSE 0, "searchDialog.click")
  /\ UNCHANGED focus

\* Escape on the open dialog: the cancel event, its default action prevented
CancelEvent ==
  /\ dlgOpen
  /\ "searchDialog.cancel" \in wired
  /\ Requests(1, "cancel")
  /\ UNCHANGED focus

\* the characters of a string: whitespace and anything else
Chars == {" ", "a"}

HintTexts == UNION {[1..n -> Chars] : n \in 0..MaxHintLen}

RECURSIVE trimStart(_)
trimStart(s) == IF s # <<>> /\ Head(s) = " " THEN trimStart(Tail(s)) ELSE s

RECURSIVE trimEnd(_)
trimEnd(s) ==
  IF s # <<>> /\ s[Len(s)] = " " THEN trimEnd(SubSeq(s, 1, Len(s) - 1)) ELSE s

\* String.prototype.trim(): the string without its leading and trailing whitespace
trim(s) == trimEnd(trimStart(s))

\* the hint's click listener:
\* if (searchInput) { searchInput.value = hint.textContent.trim(); searchInput.focus() }
HintListener(value, f, text) ==
  IF "searchInput" \in present
  THEN [value |-> trim(text), focus |-> El("searchInput")]
  ELSE [value |-> value, focus |-> f]

\* what the dialog's click listener computes for a click on a hint.  A pointer click
\* lies on the hint, within the dialog's box; a click generated by Enter or Space on
\* the focused hint carries clientX = clientY = 0.
HintVerdicts(keyboard) ==
  IF keyboard
  THEN BackdropVerdicts({0}, {0})
  ELSE {clickedBackdrop(q[1], q[2], q[3]) :
          q \in {c \in Coord \X Coord \X Rects :
                   /\ c[3].left <= c[1] /\ c[1] <= c[3].right
                   /\ c[3].top <= c[2] /\ c[2] <= c[3].bottom}}

\* a click on a hint inside the open dialog: the hint's listener runs, then the click
\* bubbles to the dialog's click listener
HintClick ==
  /\ dlgOpen
  /\ "hint.click" \in wired
  /\ \E text \in HintTexts, keyboard \in BOOLEAN :
       \E outside \in HintVerdicts(keyboard) :
         LET res == HintListener(inputValue, El("hint"), text)
             n   == IF "searchDialog.click" \in wired /\ outside THEN 1 ELSE 0
         IN  /\ inputValue' = res.value
             /\ focus' = res.focus
             /\ CloseCalls(n)
             /\ pre' = [Snapshot EXCEPT !.arg = n, !.text = text]
  /\ lastEvent' = "hint.click"

\* the animationend listener: delete dataset.closing; searchDialog.close()
AnimationEndCleanup(o, c) == [open |-> FALSE, closing |-> FALSE]

FallbackCleanupNoClose(o, c) == [open |-> o, closing |-> FALSE]

FallbackCleanupKeepsMarker(o, c) == [open |-> FALSE, closing |-> c]

\* the fallback timer: if (searchDialog.open) { delete dataset.closing; close() }
FallbackCleanup(o, c) ==
  IF o THEN [open |-> FALSE, closing |-> FALSE] ELSE [open |-> o, closing |-> c]

\* an animationend event reaches the dialog: every registered listener runs once
AnimationEnd ==
  /\ "searchDialog" \in present
  /\ pc # "start"
  /\ LET res == IF listeners # {} THEN AnimationEndCleanup(dlgOpen, closing)
                ELSE [open |-> dlgOpen, closing |-> closing]
     IN  /\ dlgOpen' = res.open
         /\ closing' = res.closing
         /\ focus' = FocusAfterClose(dlgOpen /\ ~res.open)
  /\ listeners' = {}
  /\ lastEvent' = "animationend"
  /\ pre' = Snapshot
  /\ UNCHANGED <<timers, returnFocus, reqSinceOpen, inputValue>>
  /\ UNCHANGED <<loadVars, themeVars, navVars, detVars>>

\* timers[i] may expire now: no timer set before it has a delay as short or shorter
CanFire(i) == \A j \in 1..(i - 1) : timers[j].delay > timers[i].delay

Without(ts, i) == SubSeq(ts, 1, i - 1) \o SubSeq(ts, i + 1, Len(ts))

CloseTimerFire ==
  /\ \E i \in DOMAIN timers :
       /\ timers[i].kind = "close"
       /\ CanFire(i)
       /\ timers' = Without(timers, i)
       /\ pre' = [Snapshot EXCEPT !.arg = timers[i].id]
  /\ LET res == FallbackCleanup(dlgOpen, closing) IN
       /\ dlgOpen' = res.open
       /\ closing' = res.closing
       /\ focus' = FocusAfterClose(dlgOpen /\ ~res.open)
  /\ lastEvent' = "timer.close"
  /\ UNCHANGED <<listeners, returnFocus, reqSinceOpen, inputValue>>
  /\ UNCHANGED <<loadVars, themeVars, navVars, detVars>>

\* searchInput?.focus(): focus() moves the focus only to an element that is rendered
FocusTimerFire ==
  /\ \E i \in DOMAIN timers :
       /\ timers[i].kind = "focus"
       /\ CanFire(i)
       /\ timers' = Without(timers, i)
  /\ focus' = IF "searchInput" \in present /\ dlgOpen THEN El("searchInput") ELSE focus
  /\ lastEvent' = "timer.focus"
  /\ pre' = Snapshot
  /\ UNCHANGED <<dlgOpen, closing, listeners, returnFocus, reqSinceOpen, inputValue>>
  /\ UNCHANGED <<loadVars, themeVars, navVars, detVars>>

\* ------------------------------------------------------------------ skip link
Offsets == 0..MaxScroll

\* window.scrollTo() keeps the offset within the scrollable range
Clamp(top) == IF top < 0 THEN 0 ELSE IF top > MaxScroll THEN MaxScroll ELSE top

\* focus() moves the focus to <main> only if a tabindex makes it focusable
Focusable(sk) == sk.tabindex # UNSET

SkipLinkSetsTabindex(sk, f) ==
  [skip      |-> [sk EXCEPT !.tabindex = "-1", !.scrollY = Clamp(sk.mainTop - sk.headerH)],
   focus     |-> El("main"),
   prevented |-> TRUE]

\* the skip link's click listener: e.preventDefault(); scroll so that the top of
\* <main> lies below the header (the smooth scroll ends there); mainEl.focus()
SkipLinkListener(sk, f) ==
  [skip      |-> [sk EXCEPT !.scrollY = Clamp((sk.mainTop - sk.scrollY) + sk.scrollY
                                             - sk.headerH)],
   focus     |-> IF Focusable(sk) THEN El("main") ELSE f,
   prevented |-> TRUE]

\* the default action of <a href="#main">: navigate to the fragment, which scrolls
\* to the target and gives it the focus if it can take it
FragmentNavigation(sk, f) ==
  IF "main" \in present
  THEN [skip  |-> [sk EXCEPT !.hash = "#main", !.scrollY = Clamp(sk.mainTop)],
        focus |-> IF Focusable(sk) THEN El("main") ELSE f]
  ELSE [skip |-> [sk EXCEPT !.hash = "#main"], focus |-> f]

\* an activation of the skip link: the link takes the focus, its listener runs if one
\* is registered, then the default action unless it was prevented
SkipLinkClick ==
  /\ "skipLink" \in present
  /\ LET afterListener ==
           IF "skipLink.click" \in wired
           THEN SkipLinkListener(skip, El("skipLink"))
           ELSE [skip |-> skip, focus |-> El("skipLink"), prevented |-> FALSE]
         res == IF afterListener.prevented
                THEN afterListener
                ELSE FragmentNavigation(afterListener.skip, afterListener.focus)
     IN  /\ skip' = res.skip
         /\ focus' = res.focus
  /\ lastEvent' = "skipLink.click"
  /\ pre' = Snapshot
  /\ UNCHANGED <<pc, present, wired, storageThrows>>
  /\ UNCHANGED <<themeVars, navVars, detVars, dlgVars>>

\* a scroll by the user
UserScroll ==
  /\ \E y \in Offsets : y # skip.scrollY /\ skip' = [skip EXCEPT !.scrollY = y]
  /\ lastEvent' = "scroll"
  /\ pre' = Snapshot
  /\ UNCHANGED <<pc, present, wired, storageThrows, focus>>
  /\ UNCHANGED <<themeVars, navVars, detVars, dlgVars>>

\* ------------------------------------------------------------------ specifications
SkipIdle ==
  skip = [tabindex |-> "-1", hash |-> "", scrollY |-> 0, mainTop |-> 0, headerH |-> 0]

DialogIdle ==
  /\ dlgOpen = FALSE /\ closing = FALSE /\ listeners = {} /\ timers = <<>>
  /\ returnFocus = El("body") /\ reqSinceOpen = FALSE /\ inputValue = <<>>

ThemeIdle ==
  /\ themeAttr = UNSET /\ stored = UNSET /\ osDark = FALSE
  /\ themeLabel = "initial" /\ clicks = <<>>

NavIdle ==
  /\ nav = [ariaHidden |-> "true", ariaExpanded |-> "false", label |-> "initial",
            overflow |-> ""]
  /\ navTouched = FALSE

Common ==
  /\ pc = "start" /\ wired = {} /\ open = {} /\ togglePending = <<>>
  /\ focus = El("body") /\ lastEvent = "none"

\* the page as the DOM contract describes it: <main> carries a tabindex
InitSkip ==
  /\ Common /\ ThemeIdle /\ NavIdle /\ DialogIdle
  /\ present \in {Elements \ m : m \in SUBSET {"skipLink", "main"}}
  /\ storageThrows = FALSE
  /\ skip \in [tabindex : {"-1", "0"}, hash : {"", "#top"}, scrollY : Offsets,
               mainTop : Offsets, headerH : Offsets]
  /\ pre = Snapshot

NextSkip == Load \/ SkipLinkClick \/ UserScroll

SpecSkip == InitSkip /\ [][NextSkip]_vars

InitTheme ==
  /\ Common /\ NavIdle /\ DialogIdle /\ SkipIdle
  /\ present \in {Elements, Elements \ {"themeToggle"}}
  /\ storageThrows \in BOOLEAN
  /\ themeAttr \in AttrValues
  /\ stored \in StoredValues
  /\ osDark \in BOOLEAN
  /\ themeLabel = "initial"
  /\ clicks = <<>>
  /\ pre = Snapshot

NextTheme == Load \/ ThemeToggleClick \/ OsPreferenceChange

SpecTheme == InitTheme /\ [][NextTheme]_vars

InitNav ==
  /\ Common /\ ThemeIdle /\ DialogIdle /\ SkipIdle
  /\ present \in {Elements \ m : m \in SUBSET {"hamburger", "siteNav"}}
  /\ storageThrows = FALSE
  /\ nav \in [ariaHidden : AttrInit, ariaExpanded : AttrInit, label : {"initial"},
              overflow : {"", "hidden"}]
  /\ navTouched = FALSE
  /\ pre = Snapshot

NextNav ==
  \/ Load
  \/ HamburgerClick
  \/ NavBackgroundClick
  \/ \E t \in Details \cup {0} : NavLinkClick(t)
  \/ \E t \in Details \cup {0} : ContentClick(t)
  \/ \E d \in Details : SummaryClick(d)
  \/ EscapeKey
  \/ ToggleEvent

SpecNav == InitNav /\ [][NextNav]_vars

InitDialog ==
  /\ Common /\ ThemeIdle /\ NavIdle /\ DialogIdle /\ SkipIdle
  /\ present \in {Elements \ m :
                    m \in SUBSET {"searchDialog", "searchTrigger", "searchClose",
                                  "searchInput"}}
  /\ storageThrows = FALSE
  /\ pre = Snapshot

NextDialog ==
  \/ Load
  \/ TriggerClick
  \/ CloseButtonClick
  \/ DialogClick
  \/ CancelEvent
  \/ AnimationEnd
  \/ CloseTimerFire
  \/ FocusTimerFire

SpecDialog == InitDialog /\ [][NextDialog]_vars

\* every timer that has been set expires
SpecDialogFair == SpecDialog /\ WF_vars(CloseTimerFire) /\ WF_vars(FocusTimerFire)

\* the dialog with its quick-search hints
NextHint == NextDialog \/ HintClick

SpecHint == InitDialog /\ [][NextHint]_vars

\* ------------------------------------------------------------------ search dialog: claims
CloseRequested ==
  lastEvent \in {"searchClose.click", "searchDialog.click", "cancel"} /\ pre.arg > 0

\* C1: after a close request on the open dialog (close button, backdrop click or
\* cancel), the dialog is eventually closed, and it is closed whenever a fallback
\* timer has just expired, whether or not an animationend event is ever delivered.
C1_ClosedAfterFallback ==
  /\ CloseRequested ~> ~dlgOpen
  /\ [](lastEvent = "timer.close" => ~dlgOpen)

\* the fallback timer closed a dialog whose animationend listener never ran
C1_Witness ==
  /\ lastEvent = "timer.close"
  /\ pre.dlgOpen /\ ~dlgOpen
  /\ pre.arg \in listeners

\* the cleanup path of a close request that runs after the request's other path
SecondPathRan ==
  \/ lastEvent = "timer.close" /\ pre.arg \notin pre.listeners
  \/ /\ lastEvent = "animationend"
     /\ pre.listeners # {}
     /\ pre.listeners \cap TimerIds(pre.timers) = {}

\* C2: of the two cleanup paths of one close request, the animationend listener and
\* the fallback timer, the one that runs second changes neither the dialog's open
\* state nor its closing marker.
C2_SecondCleanupDoesNothing ==
  SecondPathRan => (dlgOpen = pre.dlgOpen /\ closing = pre.closing)

\* C3: a dialog opened by the trigger closes only after a close request made since
\* that open; a timer or listener left by an earlier request never closes it.
C3_ClosedOnlyByLaterRequest ==
  (pre.dlgOpen /\ ~dlgOpen) => reqSinceOpen

\* C4: the closing marker, once set, is eventually cleared, and a dialog that
\* reports closed never carries it.
C4_NeverStuckClosing ==
  /\ closing ~> ~closing
  /\ [](~dlgOpen => ~closing)

\* the fallback timer cleared the marker of a dialog whose listener never ran
C4_Witness ==
  /\ lastEvent = "timer.close"
  /\ pre.closing /\ ~closing /\ ~dlgOpen
  /\ listeners # {}

\* ------------------------------------------------------------------ navigation: claims
NavClosedState ==
  nav.ariaHidden = "true" /\ nav.ariaExpanded = "false" /\ nav.overflow = ""

NavOpenState ==
  nav.ariaHidden = "false" /\ nav.ariaExpanded = "true" /\ nav.overflow = "hidden"

\* C5: the hamburger, activated on a closed panel, sets aria-hidden=false,
\* aria-expanded=true and body overflow hidden; from the open state a click on the
\* panel container, Escape and a click on a link each set aria-hidden=true,
\* aria-expanded=false and clear the body overflow.
C5_OpenAndCloseTriggers ==
  /\ (NavWired /\ lastEvent = "hamburger.click" /\ ~pre.navOpen) => NavOpenState
  /\ (NavWired /\ pre.navOpen
        /\ lastEvent \in {"siteNav.click", "keydown.Escape", "navLink.click"})
       => NavClosedState

\* a link click closed a panel that the hamburger had opened
C5_Witness ==
  /\ NavWired /\ lastEvent = "navLink.click" /\ pre.navOpen
  /\ NavClosedState /\ nav.label = "Otevrit navigaci"

\* C6: once a nav handler has run, aria-hidden=false on the panel, aria-expanded=true
\* on the trigger and body overflow hidden hold together or not at all.
C6_NavInSync ==
  navTouched =>
    /\ (nav.ariaHidden = "false") <=> (nav.ariaExpanded = "true")
    /\ (nav.ariaHidden = "false") <=> (nav.overflow = "hidden")

\* the hamburger opened the panel
C6_Witness ==
  navTouched /\ lastEvent = "hamburger.click" /\ ~pre.navOpen /\ NavOpenState

\* C7: after the keydown handlers have run for an Escape pressed on the open panel,
\* the focus is on the hamburger, whichever disclosures were open.
C7_EscapeFocusesHamburger ==
  (NavWired /\ lastEvent = "keydown.Escape" /\ pre.navOpen) => focus = El("hamburger")

\* C8: once the queued toggle events have been dispatched, at most one <details> of
\* .site-nav is open; the toggle event of an open one leaves it the only open one.
C8_SingleOpen ==
  /\ togglePending = <<>> => Cardinality(open \cap NavDetails) <= 1
  /\ (lastEvent = "toggle" /\ pre.arg \in pre.open \cap NavDetails)
       => open \cap NavDetails = {pre.arg}

\* B was opened while A was open, and B's toggle event closed A
C8_Witness ==
  /\ lastEvent = "toggle"
  /\ Cardinality(pre.open \cap NavDetails) = 2
  /\ open \cap NavDetails = {pre.arg}

\* ------------------------------------------------------------------ theme: claims
\* the effective theme: the explicit attribute if set, else the OS preference
Effective(attr, os) == IF attr = UNSET THEN (IF os THEN "dark" ELSE "light") ELSE attr

Opposite(t) == IF t = "dark" THEN "light" ELSE "dark"

\* C9: every activation sets the attribute to the opposite of the effective theme and
\* stores the same value; from an unset attribute under a dark OS preference the first
\* activation sets and stores light and the next one sets and stores dark.
C9_ToggleFlipsEffective ==
  \A i \in DOMAIN clicks :
    LET c == clicks[i] IN
      /\ Effective(c.attrBefore, c.os) \in Themes
           => /\ c.attrAfter = Opposite(Effective(c.attrBefore, c.os))
              /\ c.storedAfter = c.attrAfter
      /\ (c.attrBefore = UNSET /\ c.os)
           => /\ c.attrAfter = "light" /\ c.storedAfter = "light"
              /\ (i + 1) \in DOMAIN clicks
                   => (clicks[i + 1].attrAfter = "dark" /\ clicks[i + 1].storedAfter = "dark")

\* two activations from an unset attribute under a dark OS preference
C9_Witness ==
  /\ Len(clicks) >= 2
  /\ clicks[1].attrBefore = UNSET /\ clicks[1].os
  /\ themeAttr = "dark" /\ stored = "dark"

\* C10 as stated: two activations in a row restore the attribute and the stored
\* value the first of them found, whatever these were.
C10_TwiceRestoresAlways ==
  \A i \in DOMAIN clicks :
    (i + 1) \in DOMAIN clicks
      => /\ clicks[i + 1].attrAfter = clicks[i].attrBefore
         /\ clicks[i + 1].storedAfter = clicks[i].storedBefore

\* C10, amended: two activations in a row restore the attribute and the stored value
\* the first of them found, when these were the same theme, light or dark.
C10_TwiceRestoresTheme ==
  \A i \in DOMAIN clicks :
    ((i + 1) \in DOMAIN clicks /\ clicks[i].attrBefore \in Themes
       /\ clicks[i].storedBefore = clicks[i].attrBefore)
      => /\ clicks[i + 1].attrAfter = clicks[i].attrBefore
         /\ clicks[i + 1].storedAfter = clicks[i].storedBefore

\* two activations after a stored light preference was restored at load
C10_Witness ==
  /\ Len(clicks) = 2
  /\ clicks[1].attrBefore = "light" /\ clicks[1].storedBefore = "light"
  /\ themeAttr = "light" /\ stored = "light"

\* ------------------------------------------------------------------ load: claims
\* C11: when reading the stored preference throws at load, the script still runs to
\* its end and registers the listeners of every feature whose elements are present.
C11_StorageFailureTolerated ==
  (pc # "start" /\ storageThrows) => (pc = "done" /\ wired = Wiring(present))

\* C17: once the script has run, a stored theme preference equals the document's
\* theme attribute, and every value a toggle wrote is light or dark.
C17_StoredMatchesAttribute ==
  /\ (pc = "done" /\ Truthy(stored)) => themeAttr = stored
  /\ \A i \in DOMAIN clicks :
       clicks[i].attrAfter \in Themes /\ clicks[i].storedAfter \in Themes

\* a stored dark preference was restored at load, then toggled to light
C17_Witness ==
  /\ pc = "done" /\ Len(clicks) = 1
  /\ clicks[1].storedBefore = "dark" /\ clicks[1].attrBefore = "dark"
  /\ stored = "light" /\ themeAttr = "light"

\* the script runs on a document from which any of the expected elements may be missing
InitLoad ==
  /\ Common /\ ThemeIdle /\ NavIdle /\ DialogIdle /\ SkipIdle
  /\ present \in SUBSET Elements
  /\ storageThrows = FALSE
  /\ pre = Snapshot

NextLoad == Load

SpecLoad == InitLoad /\ [][NextLoad]_vars

\* the elements a feature's wiring needs, and the listeners that wiring registers
Features ==
  { [needs |-> {"themeToggle"}, registers |-> {"themeToggle.click"}],
    [needs |-> {"hamburger", "siteNav"},
     registers |-> {"hamburger.click", "siteNav.click", "document.keydown.nav",
                    "navLinks.click"}],
    [needs |-> {},
     registers |-> {"document.click", "document.keydown.details", "details.toggle"}],
    [needs |-> {"searchDialog", "searchTrigger"},
     registers |-> {"searchTrigger.click", "searchDialog.click", "searchDialog.cancel",
                    "hint.click"}],
    [needs |-> {"searchDialog", "searchTrigger", "searchClose"},
     registers |-> {"searchClose.click"}],
    [needs |-> {"skipLink", "main"}, registers |-> {"skipLink.click"}] }

\* C14: whatever elements are missing, the script runs to its end, and a feature's
\* listeners are registered exactly when all the elements it needs are present.
C14_MissingElementsDisableOnlyTheirFeature ==
  pc # "start" =>
    /\ pc = "done"
    /\ \A f \in Features :
         IF f.needs \subseteq present THEN f.registers \subseteq wired
         ELSE f.registers \cap wired = {}

\* the close button and the hamburger are missing: the dialog is wired, the nav is not
C14_Witness ==
  /\ pc = "done"
  /\ present = Elements \ {"searchClose", "hamburger"}
  /\ "searchTrigger.click" \in wired /\ "searchDialog.cancel" \in wired
  /\ "hamburger.click" \notin wired /\ "searchClose.click" \notin wired

\* ------------------------------------------------------------------ navigation: more claims
ClickEvents ==
  {"hamburger.click", "siteNav.click", "navLink.click", "content.click", "summary.click"}

CanonicalClosed ==
  [ariaHidden |-> "true", ariaExpanded |-> "false", label |-> "Otevrit navigaci",
   overflow |-> ""]

\* C16: closing the panel through the hamburger, the panel container, Escape or a
\* link leaves the same four values, and a close applied to a panel that is already
\* closed that way changes nothing.
C16_ClosePathsAgree ==
  NavWired =>
    /\ (lastEvent \in {"hamburger.click", "keydown.Escape"} /\ pre.navOpen)
         => nav = CanonicalClosed
    /\ lastEvent \in {"siteNav.click", "navLink.click"} => nav = CanonicalClosed
    /\ (lastEvent \in {"siteNav.click", "navLink.click", "keydown.Escape"}
          /\ pre.nav = CanonicalClosed)
         => nav = pre.nav

\* a link click was applied to a panel that a close path had already closed
C16_Witness ==
  /\ NavWired /\ lastEvent = "navLink.click" /\ navTouched
  /\ pre.nav = CanonicalClosed /\ nav = CanonicalClosed

\* C12: activating a hint while the dialog is open copies the hint's trimmed text into
\* the search field, focuses the field and starts no close: no closeSearch() call is
\* made, the closing marker is as it was, and the dialog is still open.
C12_HintCopiesWithoutClosing ==
  lastEvent = "hint.click" =>
    /\ "searchInput" \in present =>
         (inputValue = trim(pre.text) /\ focus = El("searchInput"))
    /\ pre.arg = 0
    /\ closing = pre.closing
    /\ dlgOpen

\* the part of C12 about the field alone: the trimmed text is copied and the field
\* is focused
C12_HintCopiesTrimmedText ==
  (lastEvent = "hint.click" /\ "searchInput" \in present) =>
    (inputValue = trim(pre.text) /\ focus = El("searchInput"))

\* C15: an activation of the skip link that the script handles suppresses the anchor's
\* default navigation (location.hash is as it was), leaves the focus on <main>, and
\* leaves the tabindex of <main> as it was.
C15_SkipLinkFocusesMain ==
  (lastEvent = "skipLink.click" /\ "skipLink.click" \in wired) =>
    /\ skip.hash = pre.skip.hash
    /\ focus = El("main")
    /\ skip.tabindex = pre.skip.tabindex

\* the link was activated on a page whose <main> is in the tab order (tabindex 0),
\* after the user had scrolled
C15_Witness ==
  /\ lastEvent = "skipLink.click" /\ "skipLink.click" \in wired
  /\ pre.skip.tabindex = "0" /\ pre.skip.scrollY # skip.scrollY
  /\ pre.focus # El("main") /\ focus = El("main")
====
